---- MODULE Spec2Model ----
(***************************************************************************)
(* Emotion-analysis demo page: the Index page (capture, 10 s recording     *)
(* countdown, analysis), the AudioRecorder it drives, and the prediction   *)
(* helpers of utils/modelLoader.ts.                                        *)
(*                                                                         *)
(* JavaScript values are tagged records, so that null, undefined, NaN, "", *)
(* numbers, arrays and blobs stay distinct and truthiness is computed the  *)
(* way the language computes it.  Numbers are fixed point with two         *)
(* decimals: Num(80) is 0.8, Num(9600) is 96.                              *)
(***************************************************************************)
EXTENDS Integers, Sequences, FiniteSets, TLC

\* ------------------------------------------------------------------ bounds
\* Longest model output row that is enumerated (30 values are 15 keypoints).
MaxRowLen == 31
\* Number of recording sessions the user starts in one run.
MaxSessions == 2

\* --------------------------------------------------------------- JS values
Null == [t |-> "null"]
Undefined == [t |-> "undefined"]
NaN == [t |-> "nan"]
NegInfinity == [t |-> "-infinity"]
Thrown == [t |-> "throw"]
Num(v) == [t |-> "number", v |-> v]
Str(s) == [t |-> "string", s |-> s]
Arr(items) == [t |-> "array", items |-> items]
Blob(chunks) == [t |-> "blob", chunks |-> chunks]

\* ToBoolean of a JS value.
Truthy(x) ==
  CASE x.t = "null" -> FALSE
    [] x.t = "undefined" -> FALSE
    [] x.t = "nan" -> FALSE
    [] x.t = "number" -> x.v # 0
    [] x.t = "string" -> x.s # ""
    [] OTHER -> TRUE

\* x[i] with a zero-based index; undefined outside an array's range and on
\* a number.
At(x, i) ==
  IF x.t = "array" /\ i >= 0 /\ i < Len(x.items) THEN x.items[i + 1] ELSE Undefined

\* x.length: a number for an array, undefined for a number.
LengthOf(x) == IF x.t = "array" THEN Num(100 * Len(x.items)) ELSE Undefined

\* a < b as JS evaluates it: false as soon as an operand is not a number.
LessThan(a, b) == a.t = "number" /\ b.t = "number" /\ a.v < b.v

\* a * b in fixed point; NaN as soon as an operand is not a number.
Times(a, b) ==
  IF a.t = "number" /\ b.t = "number" THEN Num((a.v * b.v) \div 100) ELSE NaN

\* Math.max(...items): -Infinity for no argument, NaN if any argument is
\* not a number.
MathMax(items) ==
  IF Len(items) = 0 THEN NegInfinity
  ELSE IF \E i \in 1..Len(items) : items[i].t # "number" THEN NaN
  ELSE LET best == CHOOSE i \in 1..Len(items) :
                     \A j \in 1..Len(items) : items[j].v <= items[i].v
       IN items[best]

\* items.indexOf(x): zero-based index of the first strictly equal element,
\* -1 when there is none; NaN is equal to nothing.
IndexOf(items, x) ==
  LET hits == {i \in 1..Len(items) : x.t = "number" /\ items[i] = x}
  IN IF hits = {} THEN -1
     ELSE (CHOOSE i \in hits : \A j \in hits : i <= j) - 1

\* Math.floor(r * n) for r in [0, 1) given in hundredths.
FloorTimes(r, n) == (r * n) \div 100

\* ------------------------------------------------------------ modelLoader
emotions == <<"happy", "sad", "angry", "surprised", "neutral", "fearful">>

Resolved(v) == [t |-> "resolved", value |-> v]
Rejected == [t |-> "rejected"]
Returned(v) == [t |-> "return", value |-> v]

EmotionResult(e, c) == [emotion |-> Str(e), confidence |-> c]

NeutralDefault == EmotionResult("neutral", Num(80))

\* Index of the largest probability of a row, as both emotion predictors
\* compute it.
maxProbIndex(row) == IndexOf(row.items, MathMax(row.items))

\* Variant: the label is read without the range check on the index.
predictFacialEmotionTryUnchecked(env) ==
  IF ~env.model THEN Returned(NeutralDefault)
  ELSE IF env.preprocess = "reject" THEN Thrown
  ELSE IF env.output.t = "throw" THEN Thrown
  ELSE IF ~Truthy(env.output) \/ ~Truthy(At(env.output, 0))
    THEN Returned(NeutralDefault)
  ELSE LET row == At(env.output, 0) IN
    IF row.t # "array" THEN Thrown
    ELSE LET i == maxProbIndex(row) IN
      Returned([emotion |-> IF i >= 0 /\ i < Len(emotions)
                              THEN Str(emotions[i + 1]) ELSE Undefined,
                confidence |-> At(row, i)])

\* The try block of predictFacialEmotion: Returned(v) for a return
\* statement, Thrown when a step throws.  env.model is whether
\* window.facialEmotionModel is set, env.preprocess the outcome of
\* preprocessImage, env.output what predict(...).array() yields.
predictFacialEmotionTry(env) ==
  IF ~env.model THEN Returned(NeutralDefault)
  ELSE IF env.preprocess = "reject" THEN Thrown
  ELSE IF env.output.t = "throw" THEN Thrown
  ELSE IF ~Truthy(env.output) \/ ~Truthy(At(env.output, 0))
    THEN Returned(NeutralDefault)
  ELSE LET row == At(env.output, 0) IN
    IF row.t # "array" THEN Thrown  \* spread of a non-iterable
    ELSE LET i == maxProbIndex(row) IN
      IF i >= 0 /\ i < Len(emotions)
        THEN Returned(EmotionResult(emotions[i + 1], At(row, i)))
        ELSE Returned(NeutralDefault)

\* Variant: the catch block rethrows, so the promise rejects.
predictFacialEmotionRethrows(env) ==
  LET r == predictFacialEmotionTry(env) IN
  IF r.t = "throw" THEN Rejected ELSE Resolved(r.value)

predictFacialEmotion(env) ==
  LET r == predictFacialEmotionTry(env) IN
  IF r.t = "throw" THEN Resolved(NeutralDefault) ELSE Resolved(r.value)

\* Variant: the confidence is drawn from [0, 0.5).
getFallbackSpeechEmotionLow(rand1, rand2) ==
  EmotionResult(emotions[FloorTimes(rand1, Len(emotions)) + 1],
                Num((rand2 * 50) \div 100))

\* rand1 and rand2 are the two Math.random() draws, in hundredths.
getFallbackSpeechEmotion(rand1, rand2) ==
  EmotionResult(emotions[FloorTimes(rand1, Len(emotions)) + 1],
                Num((rand2 * 50) \div 100 + 50))

\* The inner try block of predictSpeechEmotion (prediction and decoding).
predictSpeechEmotionInner(env) ==
  IF env.output.t = "throw" THEN Thrown
  ELSE IF ~Truthy(env.output) \/ ~Truthy(At(env.output, 0))
    THEN Returned(getFallbackSpeechEmotion(env.rand1, env.rand2))
  ELSE LET row == At(env.output, 0) IN
    IF row.t # "array" THEN Thrown
    ELSE LET i == maxProbIndex(row) IN
      IF i >= 0 /\ i < Len(emotions)
        THEN Returned(EmotionResult(emotions[i + 1], At(row, i)))
        ELSE Returned(getFallbackSpeechEmotion(env.rand1, env.rand2))

\* The outer try block: model lookup, feature tensor, inner block, and the
\* finally clause whose dispose() replaces the outcome when it throws.
predictSpeechEmotionTry(env) ==
  IF ~env.model THEN Returned(getFallbackSpeechEmotion(env.rand1, env.rand2))
  ELSE IF env.tensor = "throw" THEN Thrown
  ELSE IF env.dispose = "throw" THEN Thrown
  ELSE predictSpeechEmotionInner(env)

predictSpeechEmotion(env) ==
  LET r == predictSpeechEmotionTry(env) IN
  IF r.t = "throw"
    THEN Resolved(getFallbackSpeechEmotion(env.rand1, env.rand2))
    ELSE Resolved(r.value)

Point(x, y) == Arr(<<Num(100 * x), Num(100 * y)>>)

generateSampleKeypoints ==
  LET centerX == 48
      centerY == 48
  IN Arr(<< Point(centerX - 15, centerY - 15), Point(centerX + 15, centerY - 15),
            Point(centerX, centerY),
            Point(centerX - 10, centerY + 15), Point(centerX + 10, centerY + 15),
            Point(centerX - 20, centerY - 5), Point(centerX + 20, centerY - 5),
            Point(centerX, centerY + 10), Point(centerX, centerY + 20),
            Point(centerX - 25, centerY), Point(centerX + 25, centerY),
            Point(centerX - 15, centerY - 25), Point(centerX + 15, centerY - 25),
            Point(centerX - 15, centerY + 25), Point(centerX + 15, centerY + 25) >>)

\* The loop "for (i = 0; i < 30; i += 2) keypoints.push([flat[i] * 96,
\* flat[i + 1] * 96])".
keypointPairs(flat) ==
  Arr([k \in 1..15 |->
         Arr(<<Times(At(flat, 2 * (k - 1)), Num(9600)),
               Times(At(flat, 2 * (k - 1) + 1), Num(9600))>>)])

\* Variant: no check that the output row has 30 values.
predictFacialKeypointsTryAnyLength(env) ==
  IF ~env.model THEN Returned(generateSampleKeypoints)
  ELSE IF env.preprocess = "reject" THEN Thrown
  ELSE IF env.output.t = "throw" THEN Thrown
  ELSE IF ~Truthy(env.output) \/ ~Truthy(At(env.output, 0))
    THEN Returned(generateSampleKeypoints)
  ELSE Returned(keypointPairs(At(env.output, 0)))

predictFacialKeypointsTry(env) ==
  IF ~env.model THEN Returned(generateSampleKeypoints)
  ELSE IF env.preprocess = "reject" THEN Thrown
  ELSE IF env.output.t = "throw" THEN Thrown
  ELSE IF ~Truthy(env.output) \/ ~Truthy(At(env.output, 0))
    THEN Returned(generateSampleKeypoints)
  ELSE LET flatKeypoints == At(env.output, 0) IN
    IF LessThan(LengthOf(flatKeypoints), Num(3000))
      THEN Returned(generateSampleKeypoints)
      ELSE Returned(keypointPairs(flatKeypoints))

predictFacialKeypoints(env) ==
  LET r == predictFacialKeypointsTry(env) IN
  IF r.t = "throw" THEN Resolved(generateSampleKeypoints) ELSE Resolved(r.value)

\* ------------------------------------- predictors of the throwing revision
\* "keypoints.push([flatKeypoints[i], flatKeypoints[i + 1]])"
keypointPairsUnscaled(flat) ==
  Arr([k \in 1..15 |->
         Arr(<<At(flat, 2 * (k - 1)), At(flat, 2 * (k - 1) + 1)>>)])

\* The try block of this revision's predictFacialKeypoints: every failure
\* is a throw.
predictFacialKeypointsThrowingTry(env) ==
  IF ~env.model THEN Thrown
  ELSE IF env.preprocess = "reject" THEN Thrown
  ELSE IF env.output.t = "throw" THEN Thrown
  ELSE IF ~Truthy(env.output) \/ ~Truthy(At(env.output, 0)) THEN Thrown
  ELSE LET flatKeypoints == At(env.output, 0) IN
    IF LessThan(LengthOf(flatKeypoints), Num(3000))
      THEN Thrown
      ELSE Returned(keypointPairsUnscaled(flatKeypoints))

\* "catch (error) { console.error(...); throw error; }"
predictFacialKeypointsThrowing(env) ==
  LET r == predictFacialKeypointsThrowingTry(env) IN
  IF r.t = "throw" THEN Rejected ELSE Resolved(r.value)

predictFacialEmotionThrowingTry(env) ==
  IF ~env.model THEN Thrown
  ELSE IF env.preprocess = "reject" THEN Thrown
  ELSE IF env.output.t = "throw" THEN Thrown
  ELSE IF ~Truthy(env.output) \/ ~Truthy(At(env.output, 0)) THEN Thrown
  ELSE LET row == At(env.output, 0) IN
    IF row.t # "array" THEN Thrown  \* spread of a non-iterable
    ELSE LET i == maxProbIndex(row) IN
      IF i >= 0 /\ i < Len(emotions)
        THEN Returned(EmotionResult(emotions[i + 1], At(row, i)))
        ELSE Thrown

predictFacialEmotionThrowing(env) ==
  LET r == predictFacialEmotionThrowingTry(env) IN
  IF r.t = "throw" THEN Rejected ELSE Resolved(r.value)

\* The inner try block of this revision's predictSpeechEmotion.
predictSpeechEmotionThrowingInner(env) ==
  IF env.output.t = "throw" THEN Thrown
  ELSE IF ~Truthy(env.output) \/ ~Truthy(At(env.output, 0)) THEN Thrown
  ELSE LET row == At(env.output, 0) IN
    IF row.t # "array" THEN Thrown
    ELSE LET i == maxProbIndex(row) IN
      IF i >= 0 /\ i < Len(emotions)
        THEN Returned(EmotionResult(emotions[i + 1], At(row, i)))
        ELSE Thrown

predictSpeechEmotionThrowingTry(env) ==
  IF ~env.model THEN Thrown
  ELSE IF env.tensor = "throw" THEN Thrown
  ELSE IF env.dispose = "throw" THEN Thrown
  ELSE predictSpeechEmotionThrowingInner(env)

\* This revision's predictSpeechEmotion still answers every failure with a
\* random placeholder.
predictSpeechEmotionThrowing(env) ==
  LET r == predictSpeechEmotionThrowingTry(env) IN
  IF r.t = "throw"
    THEN Resolved(getFallbackSpeechEmotion(env.rand1, env.rand2))
    ELSE Resolved(r.value)

\* ------------------------------------------------- inputs of the predictors
\* Longest probability row that is enumerated (six values are the six labels).
MaxEmotionRow == 7

PeakRow(n, k) == Arr([i \in 1..n |-> IF i = k THEN Num(70) ELSE Num(5)])
FlatRow(n, v) == Arr([i \in 1..n |-> Num(v)])
NaNRow(n, k) == Arr([i \in 1..n |-> IF i = k THEN NaN ELSE Num(5)])

EmotionRows ==
  {PeakRow(n, k) : n \in (MaxEmotionRow - 2)..MaxEmotionRow,
                   k \in 1..MaxEmotionRow}
    \cup {FlatRow(n, 0) : n \in 0..MaxEmotionRow}
    \cup {NaNRow(n, 1) : n \in 1..2}

KeypointRow(n) == Arr([i \in 1..n |-> Num((i % 4) * 25)])

KeypointRows == {KeypointRow(n) : n \in 0..MaxRowLen}

\* What predict(...).array() can yield: a throw, null, a bare number (rank 0),
\* a list of numbers (rank 1), or a list of rows.
OutputsOf(rows) ==
  {Thrown, Null, Num(50), Arr(<<>>), Arr(<<Num(0), Num(50)>>),
   Arr(<<Num(50), Num(0)>>)} \cup {Arr(<<r>>) : r \in rows}

ImageEnvs(outputs) ==
  [model : BOOLEAN, preprocess : {"ok", "reject"}, output : outputs]

FacialEmotionEnvs == ImageEnvs(OutputsOf(EmotionRows))
KeypointEnvs == ImageEnvs(OutputsOf(KeypointRows))

SpeechEnvs ==
  [model : BOOLEAN, tensor : {"ok", "throw"}, dispose : {"ok", "throw"},
   output : OutputsOf(EmotionRows), rand1 : {0, 99}, rand2 : {0, 99}]

\* Inputs the Index page's analysis draws from: each predictor with its
\* model missing, failing, and answering in and out of range.
PageKeypointEnvs ==
  {[model |-> FALSE, preprocess |-> "ok", output |-> Null],
   [model |-> TRUE, preprocess |-> "reject", output |-> Null],
   [model |-> TRUE, preprocess |-> "ok", output |-> Arr(<<KeypointRow(29)>>)],
   [model |-> TRUE, preprocess |-> "ok", output |-> Arr(<<KeypointRow(30)>>)]}

PageFacialEnvs ==
  {[model |-> FALSE, preprocess |-> "ok", output |-> Null],
   [model |-> TRUE, preprocess |-> "ok", output |-> Arr(<<PeakRow(6, 1)>>)],
   [model |-> TRUE, preprocess |-> "ok", output |-> Arr(<<PeakRow(7, 7)>>)],
   [model |-> TRUE, preprocess |-> "ok", output |-> Arr(<<NaNRow(2, 1)>>)],
   [model |-> TRUE, preprocess |-> "ok", output |-> Thrown]}

PageSpeechEnvs ==
  {[model |-> FALSE, tensor |-> "ok", dispose |-> "ok", output |-> Null,
    rand1 |-> 0, rand2 |-> 0],
   [model |-> TRUE, tensor |-> "ok", dispose |-> "ok",
    output |-> Arr(<<PeakRow(6, 2)>>), rand1 |-> 0, rand2 |-> 0],
   [model |-> TRUE, tensor |-> "ok", dispose |-> "ok",
    output |-> Arr(<<NaNRow(2, 1)>>), rand1 |-> 0, rand2 |-> 0],
   [model |-> TRUE, tensor |-> "throw", dispose |-> "ok", output |-> Null,
    rand1 |-> 0, rand2 |-> 0],
   [model |-> TRUE, tensor |-> "ok", dispose |-> "throw",
    output |-> Arr(<<PeakRow(6, 2)>>), rand1 |-> 0, rand2 |-> 0]}

\* A predictor whose model is missing returns before its first real await,
\* so the caller resumes in the same task.
ImmediateImage(env) == ~env.model
ImmediateSpeech(env) == ~env.model \/ env.tensor = "throw"

\* ---------------------------------------------------------------- state
VARIABLES
  isRecording,       \* Index: useState(false)
  recordingTime,     \* Index: useState(0)
  capturedImage,     \* Index: useState<string | null>(null)
  audioBlob,         \* Index: useState<Blob | null>(null)
  facialKeypoints,   \* Index: useState<number[][] | null>(null)
  emotionData,       \* Index: useState<EmotionData>
  isAnalyzing,       \* Index: useState(false)
  analysis,          \* the handleAnalyzeData call in flight, if any
  sessions,          \* number of startRecording calls so far
  recorders,         \* per session: its getUserMedia request and MediaRecorder
  mediaRecorderRef,  \* AudioRecorder: mediaRecorderRef.current (0 is null)
  audioChunks,       \* AudioRecorder: audioChunksRef.current
  call,              \* last direct call of a predictor (predictor runs only)
  mounted,           \* ImageCapture: the component is mounted
  stream,            \* ImageCapture: useState<MediaStream | null> (0 is null)
  cleanupStream,     \* ImageCapture: `stream` as the current effect closed over it
  hasPermission,     \* ImageCapture: useState<boolean | null>(null)
  cameraRequests,    \* ImageCapture: per getUserMedia call, its stream's fate
  modelFiles,        \* ModelUploader: useState<ModelFile[]>
  isLoading,         \* ModelUploader: useState(false)
  uploadTimers,      \* handleFileChange: per file its interval and `progress`
  completed,         \* handleFileChange: `completed`
  demo,              \* handleLoadDemo: its interval and `count`
  isModelLoaded,     \* Index: useState(false), set through onModelsLoaded
  loadedCalls,       \* calls of onModelsLoaded(true) made by the current run
  loads,             \* per loadModels call: position, `status`, loads tried
  window,            \* the model handles stored on the window object
  revision,          \* which revision of the predictors the page imports
  modelStatus,       \* App: the status shown to the user
  toasts,            \* App: titles of the toasts of initModels, oldest first
  initModels         \* App: "awaiting" loadModels, or "done"

pageVars == <<isRecording, recordingTime, capturedImage, audioBlob,
              facialKeypoints, emotionData, isAnalyzing, analysis>>
recorderVars == <<sessions, recorders, mediaRecorderRef, audioChunks>>
cameraVars == <<mounted, stream, cleanupStream, hasPermission, cameraRequests>>
uploaderVars == <<modelFiles, isLoading, uploadTimers, completed, demo,
                  isModelLoaded, loadedCalls>>
appVars == <<modelStatus, toasts, initModels>>
loaderVars == <<loads, window, revision, appVars>>
componentVars == <<cameraVars, uploaderVars, loaderVars>>
vars == <<isRecording, recordingTime, capturedImage, audioBlob,
          facialKeypoints, emotionData, isAnalyzing, analysis,
          sessions, recorders, mediaRecorderRef, audioChunks, call,
          mounted, stream, cleanupStream, hasPermission, cameraRequests,
          modelFiles, isLoading, uploadTimers, completed, demo, isModelLoaded,
          loadedCalls,
          loads, window, revision, modelStatus, toasts, initModels>>

Sessions == 1..MaxSessions

NoEmotionData ==
  [facial |-> Null, speech |-> Null,
   confidence |-> [facial |-> Null, speech |-> Null]]

NoAnalysis == [pc |-> "idle", image |-> Null, blob |-> Null, facial |-> Null]
NoCall == [fn |-> "none"]

\* canvas.toDataURL('image/png')
ImageData == Str("data:image/png;base64")

\* getUserMedia calls of ImageCapture that are followed.
MaxCameraRequests == 3
CameraRequests == 1..MaxCameraRequests

\* The three entries of modelFiles.
ModelIndexes == 1..3

\* Progress values are kept in hundredths of a percent: Pct(99) is 99%.
Pct(n) == 100 * n

PendingFile == [status |-> "pending", progress |-> 0]
NoTimer == [running |-> FALSE, step |-> 0, progress |-> 0]
NoDemo == [running |-> FALSE, count |-> 0]

\* The two calls of loadModels: 1 is the call at the end of modelLoader.ts,
\* 2 is initModels in the mount effect of App.
Invocations == {1, 2}

\* "const status: ModelLoadingStatus = {...}"
NewStatus ==
  [keyfacial |-> FALSE, facialEmotion |-> FALSE, speechEmotion |-> FALSE,
   isLoading |-> TRUE, error |-> Null]

\* "useState<ModelLoadingStatus>({...})"
InitialModelStatus ==
  [keyfacial |-> FALSE, facialEmotion |-> FALSE, speechEmotion |-> FALSE,
   isLoading |-> TRUE, error |-> Null]

\* A call of loadModels up to its first await.
NewLoad == [pc |-> "keyfacial", status |-> NewStatus, attempts |-> <<>>]

NoHandles ==
  [keyfacialModel |-> FALSE, facialEmotionModel |-> FALSE,
   speechEmotionMlpModel |-> FALSE]

\* The page with revision rev of the predictors, after its first render.
InitWith(rev) ==
  /\ revision = rev
  /\ isRecording = FALSE
  /\ recordingTime = 0
  /\ capturedImage = Null
  /\ audioBlob = Null
  /\ facialKeypoints = Null
  /\ emotionData = NoEmotionData
  /\ isAnalyzing = FALSE
  /\ analysis = NoAnalysis
  /\ sessions = 0
  /\ recorders = [s \in Sessions |-> "none"]
  /\ mediaRecorderRef = 0
  /\ audioChunks = <<>>
  /\ call = NoCall
  /\ mounted = TRUE
  /\ stream = 0
  /\ cleanupStream = 0
  /\ hasPermission = "null"
  /\ cameraRequests = [r \in CameraRequests |-> IF r = 1 THEN "pending" ELSE "none"]
  /\ modelFiles = [i \in ModelIndexes |-> PendingFile]
  /\ isLoading = FALSE
  /\ uploadTimers = [i \in ModelIndexes |-> NoTimer]
  /\ completed = 0
  /\ demo = NoDemo
  /\ isModelLoaded = FALSE
  /\ loadedCalls = 0
  /\ loads = [i \in Invocations |-> NewLoad]
  /\ window = NoHandles
  /\ modelStatus = InitialModelStatus
  /\ toasts = <<>>
  /\ initModels = "awaiting"

\* The predictors that fall back to a placeholder when they fail.
Init == InitWith("fallback")

\* The predictors of the earlier revision, which throw when they fail.
ThrowingInit == InitWith("throwing")

\* ------------------------------------------------------------ Index page
\* Variant: the keypoints are not reset.
handleImageCaptureKeepsKeypoints(imageData) ==
  /\ capturedImage' = imageData
  /\ facialKeypoints' = facialKeypoints

handleImageCapture(imageData) ==
  /\ capturedImage' = imageData
  /\ facialKeypoints' = Null

\* ImageCapture: the Capture button is rendered while capturedImage is falsy.
\* This is the click as the page sees it; nothing of the camera stream
\* reaches the page, and captureImageCamera follows the click with it.
captureImage ==
  /\ ~Truthy(capturedImage)
  /\ handleImageCapture(ImageData)
  /\ UNCHANGED <<isRecording, recordingTime, audioBlob, emotionData,
                 isAnalyzing, analysis, recorderVars, call, componentVars>>

\* ImageCapture: the Retake button is rendered while capturedImage is truthy.
handleRetake ==
  /\ Truthy(capturedImage)
  /\ handleImageCapture(Str(""))
  /\ UNCHANGED <<isRecording, recordingTime, audioBlob, emotionData,
                 isAnalyzing, analysis, recorderVars, call, componentVars>>

\* AudioRecorder effect, isRecording false: stop the current recorder if it
\* is recording.  stop() only queues the recorder's stop event.
stopRecording(recs, ref) ==
  IF ref # 0 /\ recs[ref] = "recording"
    THEN [recs EXCEPT ![ref] = "stopping"]
    ELSE recs

\* Variant: the button can be pressed at any time.
startRecordingEnabledAlways == TRUE

\* The Start Recording button is rendered while isRecording is false, with
\* disabled={isRecording}.
startRecordingEnabled == ~isRecording

\* Variant: the results of the previous analysis are kept.
handleStartRecordingKeepsResults ==
  /\ startRecordingEnabled
  /\ sessions < MaxSessions
  /\ isRecording' = TRUE
  /\ recordingTime' = 0
  /\ sessions' = sessions + 1
  /\ audioChunks' = <<>>
  /\ recorders' = [recorders EXCEPT ![sessions + 1] = "pending"]
  /\ UNCHANGED <<capturedImage, audioBlob, isAnalyzing, analysis,
                 emotionData, facialKeypoints,
                 mediaRecorderRef, call, componentVars>>

\* The Start Recording button with the effects of the render that follows:
\* the Index interval is created and AudioRecorder.startRecording runs up to
\* its await of getUserMedia.
handleStartRecording ==
  /\ startRecordingEnabled
  /\ sessions < MaxSessions
  /\ isRecording' = TRUE
  /\ recordingTime' = 0
  /\ emotionData' = NoEmotionData
  /\ facialKeypoints' = Null
  /\ sessions' = sessions + 1
  /\ audioChunks' = <<>>
  /\ recorders' = [recorders EXCEPT ![sessions + 1] = "pending"]
  /\ UNCHANGED <<capturedImage, audioBlob, isAnalyzing, analysis,
                 mediaRecorderRef, call, componentVars>>

\* Variant: the interval never ends the recording.
TickNeverEnds ==
  /\ isRecording
  /\ recordingTime' = IF recordingTime >= 10 THEN 10 ELSE recordingTime + 1
  /\ UNCHANGED <<isRecording, recorders>>
  /\ UNCHANGED <<capturedImage, audioBlob, facialKeypoints, emotionData,
                 isAnalyzing, analysis, sessions, mediaRecorderRef,
                 audioChunks, call, componentVars>>

\* One firing of the one-second interval of the countdown effect.
Tick ==
  /\ isRecording
  /\ IF recordingTime >= 10
       THEN /\ isRecording' = FALSE
            /\ recordingTime' = 10
            /\ recorders' = stopRecording(recorders, mediaRecorderRef)
       ELSE /\ recordingTime' = recordingTime + 1
            /\ UNCHANGED <<isRecording, recorders>>
  /\ UNCHANGED <<capturedImage, audioBlob, facialKeypoints, emotionData,
                 isAnalyzing, analysis, sessions, mediaRecorderRef,
                 audioChunks, call, componentVars>>

\* getUserMedia of session s resolves: the rest of startRecording runs.
GrantMicrophone(s) ==
  /\ recorders[s] = "pending"
  /\ recorders' = [recorders EXCEPT ![s] = "recording"]
  /\ mediaRecorderRef' = s
  /\ UNCHANGED <<pageVars, sessions, audioChunks, call, componentVars>>

\* getUserMedia of session s rejects: the catch block logs.
DenyMicrophone(s) ==
  /\ recorders[s] = "pending"
  /\ recorders' = [recorders EXCEPT ![s] = "denied"]
  /\ UNCHANGED <<pageVars, sessions, mediaRecorderRef, audioChunks, call, componentVars>>

handleAudioRecorded(blob) ==
  /\ audioBlob' = blob
  /\ isRecording' = FALSE

\* The stop event of recorder s: ondataavailable (the chunk is kept when it
\* is not empty), then onstop, which builds the clip, hands it to the page
\* and stops the tracks.  If this ends a session, the AudioRecorder effect
\* runs for the new value of isRecording.
RecorderStopped(s) ==
  /\ recorders[s] = "stopping"
  /\ \E hasData \in BOOLEAN :
       /\ audioChunks' = IF hasData THEN Append(audioChunks, s) ELSE audioChunks
       /\ handleAudioRecorded(Blob(audioChunks'))
  /\ recorders' =
       LET stopped == [recorders EXCEPT ![s] = "inactive"] IN
       IF isRecording THEN stopRecording(stopped, mediaRecorderRef) ELSE stopped
  /\ UNCHANGED <<recordingTime, capturedImage, facialKeypoints, emotionData,
                 isAnalyzing, analysis, sessions, mediaRecorderRef, call, componentVars>>

\* --------------------------------------------------- handleAnalyzeData
\* A run of handleAnalyzeData is a record w: the call's position and locals
\* (pc, image, blob, facial result) and the page state it writes (kp, ed, an).
Work ==
  [pc |-> analysis.pc, image |-> analysis.image, blob |-> analysis.blob,
   facial |-> analysis.facial,
   kp |-> facialKeypoints, ed |-> emotionData, an |-> isAnalyzing]

Commit(w) ==
  /\ analysis' = [pc |-> w.pc, image |-> w.image, blob |-> w.blob,
                  facial |-> w.facial]
  /\ facialKeypoints' = w.kp
  /\ emotionData' = w.ed
  /\ isAnalyzing' = w.an

\* The finally block, reached from the try block's end and from the catch.
analyzeFinally(w) ==
  [w EXCEPT !.pc = "idle", !.image = Null, !.blob = Null, !.facial = Null,
            !.an = FALSE]

\* "const keypoints = await predictFacialKeypoints(capturedImage);
\*  setFacialKeypoints(keypoints);"
afterKeypoints(w, env) ==
  LET r == IF revision = "throwing" THEN predictFacialKeypointsThrowing(env)
           ELSE predictFacialKeypoints(env) IN
  IF r.t = "rejected" THEN analyzeFinally(w)
  ELSE [w EXCEPT !.kp = r.value, !.pc = "facial"]

\* "const facialEmotionResult = await predictFacialEmotion(capturedImage);"
afterFacial(w, env) ==
  LET r == IF revision = "throwing" THEN predictFacialEmotionThrowing(env)
           ELSE predictFacialEmotion(env) IN
  IF r.t = "rejected" THEN analyzeFinally(w)
  ELSE [w EXCEPT !.facial = r.value, !.pc = "speech"]

\* "const speechEmotionResult = await predictSpeechEmotion(audioBlob);
\*  setEmotionData({...});" and the finally block.
afterSpeech(w, env) ==
  LET r == IF revision = "throwing" THEN predictSpeechEmotionThrowing(env)
           ELSE predictSpeechEmotion(env) IN
  IF r.t = "rejected" THEN analyzeFinally(w)
  ELSE analyzeFinally(
         [w EXCEPT !.ed = [facial |-> w.facial.emotion,
                           speech |-> r.value.emotion,
                           confidence |-> [facial |-> w.facial.confidence,
                                           speech |-> r.value.confidence]]])

\* Run the call from an await on: a predictor that answers in the same task
\* lets the call continue, any other leaves it waiting at that await.
runSpeech(w) ==
  \E es \in PageSpeechEnvs :
    IF ImmediateSpeech(es) THEN Commit(afterSpeech(w, es))
    ELSE Commit([w EXCEPT !.pc = "speech"])

runFacial(w) ==
  \E ef \in PageFacialEnvs :
    IF ImmediateImage(ef)
      THEN LET v == afterFacial(w, ef) IN
           IF v.pc = "speech" THEN runSpeech(v) ELSE Commit(v)
      ELSE Commit([w EXCEPT !.pc = "facial"])

runKeypoints(w) ==
  \E ek \in PageKeypointEnvs :
    IF ImmediateImage(ek)
      THEN LET v == afterKeypoints(w, ek) IN
           IF v.pc = "facial" THEN runFacial(v) ELSE Commit(v)
      ELSE Commit([w EXCEPT !.pc = "keypoints"])

\* Variant: no check of the inputs.
analyzeDataUnchecked ==
  runKeypoints([Work EXCEPT !.an = TRUE, !.image = capturedImage,
                            !.blob = audioBlob])

\* The body of handleAnalyzeData: with an input missing it shows a toast and
\* returns, otherwise it runs up to its first await that suspends.
analyzeData ==
  IF ~Truthy(capturedImage) \/ ~Truthy(audioBlob)
    THEN UNCHANGED <<facialKeypoints, emotionData, isAnalyzing, analysis>>
    ELSE runKeypoints([Work EXCEPT !.an = TRUE, !.image = capturedImage,
                                   !.blob = audioBlob])

\* Variant: the button stays enabled while an analysis runs.
analyzeEnabledWhileAnalyzing ==
  ~(~Truthy(capturedImage) \/ ~Truthy(audioBlob))

\* "disabled={!capturedImage || !audioBlob || isAnalyzing}"
analyzeEnabled ==
  ~(~Truthy(capturedImage) \/ ~Truthy(audioBlob) \/ isAnalyzing)

\* The Analyze Emotions button: rendered while isRecording is false,
\* enabled when image and clip exist and no analysis runs.
handleAnalyzeData ==
  /\ ~isRecording
  /\ analyzeEnabled
  /\ analyzeData
  /\ UNCHANGED <<isRecording, recordingTime, capturedImage, audioBlob,
                 recorderVars, call, componentVars>>

\* handleAnalyzeData called with an input missing, which the disabled button
\* does not allow: the handler's own check is what is exercised.
handleAnalyzeDataInputMissing ==
  /\ ~Truthy(capturedImage) \/ ~Truthy(audioBlob)
  /\ analysis.pc = "idle"
  /\ analyzeData
  /\ UNCHANGED <<isRecording, recordingTime, capturedImage, audioBlob,
                 recorderVars, call, componentVars>>

\* The awaited predictFacialKeypoints settles.
KeypointsSettled ==
  /\ analysis.pc = "keypoints"
  /\ \E ek \in PageKeypointEnvs :
       /\ ~ImmediateImage(ek)
       /\ LET v == afterKeypoints(Work, ek) IN
          IF v.pc = "facial" THEN runFacial(v) ELSE Commit(v)
  /\ UNCHANGED <<isRecording, recordingTime, capturedImage, audioBlob,
                 recorderVars, call, componentVars>>

\* The awaited predictFacialEmotion settles.
FacialSettled ==
  /\ analysis.pc = "facial"
  /\ \E ef \in PageFacialEnvs :
       /\ ~ImmediateImage(ef)
       /\ LET v == afterFacial(Work, ef) IN
          IF v.pc = "speech" THEN runSpeech(v) ELSE Commit(v)
  /\ UNCHANGED <<isRecording, recordingTime, capturedImage, audioBlob,
                 recorderVars, call, componentVars>>

\* The awaited predictSpeechEmotion settles.
SpeechSettled ==
  /\ analysis.pc = "speech"
  /\ \E es \in PageSpeechEnvs :
       /\ ~ImmediateSpeech(es)
       /\ Commit(afterSpeech(Work, es))
  /\ UNCHANGED <<isRecording, recordingTime, capturedImage, audioBlob,
                 recorderVars, call, componentVars>>

Next ==
  \/ captureImage
  \/ handleRetake
  \/ handleStartRecording
  \/ Tick
  \/ \E s \in Sessions : GrantMicrophone(s)
  \/ \E s \in Sessions : DenyMicrophone(s)
  \/ \E s \in Sessions : RecorderStopped(s)
  \/ handleAnalyzeData
  \/ KeypointsSettled
  \/ FacialSettled
  \/ SpeechSettled

Spec == Init /\ [][Next]_vars

\* The interval keeps firing while it exists.
\* The page built on the predictors that throw.
ThrowingSpec == ThrowingInit /\ [][Next]_vars

FairSpec == Spec /\ WF_vars(Tick)

\* The interval keeps firing and a queued stop event is dispatched.
FairStopSpec ==
  /\ Spec
  /\ WF_vars(Tick)
  /\ \A s \in Sessions : WF_vars(RecorderStopped(s))

\* The page, with handleAnalyzeData also called while an input is missing.
HandlerNext ==
  \/ Next
  \/ handleAnalyzeDataInputMissing

HandlerSpec == Init /\ [][HandlerNext]_vars

\* ------------------------------------------------ direct predictor calls
CallPredictFacialKeypoints ==
  /\ \E env \in KeypointEnvs :
       call' = [fn |-> "predictFacialKeypoints", env |-> env,
                result |-> predictFacialKeypoints(env)]
  /\ UNCHANGED <<pageVars, recorderVars, componentVars>>

CallPredictFacialEmotion ==
  /\ \E env \in FacialEmotionEnvs :
       call' = [fn |-> "predictFacialEmotion", env |-> env,
                result |-> predictFacialEmotion(env)]
  /\ UNCHANGED <<pageVars, recorderVars, componentVars>>

CallPredictSpeechEmotion ==
  /\ \E env \in SpeechEnvs :
       call' = [fn |-> "predictSpeechEmotion", env |-> env,
                result |-> predictSpeechEmotion(env)]
  /\ UNCHANGED <<pageVars, recorderVars, componentVars>>

PredictNext ==
  \/ CallPredictFacialKeypoints
  \/ CallPredictFacialEmotion
  \/ CallPredictSpeechEmotion

PredictSpec == Init /\ [][PredictNext]_vars

\* ---------------------------------------------------- ImageCapture camera
\* One mounted ImageCapture is followed, from its mount to its unmount.  A
\* getUserMedia call is "pending", then "denied" or "live" (its stream has
\* running tracks), and "stopped" once the tracks were stopped.
\* "stream.getTracks().forEach(track => track.stop())", stream may be null.
stopTracks(reqs, s) ==
  IF s # 0 /\ reqs[s] = "live" THEN [reqs EXCEPT ![s] = "stopped"] ELSE reqs

cameraCalls == Cardinality({r \in CameraRequests : cameraRequests[r] # "none"})

\* The Capture button with the camera: onCapture, then the tracks of the
\* rendered `stream` are stopped; in the render that follows capturedImage
\* has changed, so the effect's cleanup runs with the `stream` it closed
\* over and the new effect, which closes over the current one, starts no
\* camera.
captureImageCamera ==
  /\ mounted
  /\ ~Truthy(capturedImage)
  /\ handleImageCapture(ImageData)
  /\ cameraRequests' =
       stopTracks(stopTracks(cameraRequests, stream), cleanupStream)
  /\ cleanupStream' = stream
  /\ UNCHANGED <<mounted, stream, hasPermission>>
  /\ UNCHANGED <<isRecording, recordingTime, audioBlob, emotionData,
                 isAnalyzing, analysis, recorderVars, call,
                 uploaderVars, loaderVars>>

\* The Retake button with the camera: onCapture(""); in the render that
\* follows the cleanup runs and the new effect calls startCamera.
handleRetakeCamera ==
  /\ mounted
  /\ Truthy(capturedImage)
  /\ cameraCalls < MaxCameraRequests
  /\ handleImageCapture(Str(""))
  /\ cameraRequests' =
       [stopTracks(cameraRequests, cleanupStream)
          EXCEPT ![cameraCalls + 1] = "pending"]
  /\ cleanupStream' = stream
  /\ UNCHANGED <<mounted, stream, hasPermission>>
  /\ UNCHANGED <<isRecording, recordingTime, audioBlob, emotionData,
                 isAnalyzing, analysis, recorderVars, call,
                 uploaderVars, loaderVars>>

\* getUserMedia call r resolves: setStream, setHasPermission(true).  The
\* effect depends on capturedImage only, so it is not run again.
GrantCamera(r) ==
  /\ cameraRequests[r] = "pending"
  /\ cameraRequests' = [cameraRequests EXCEPT ![r] = "live"]
  /\ IF mounted
       THEN stream' = r /\ hasPermission' = "true"
       ELSE UNCHANGED <<stream, hasPermission>>
  /\ UNCHANGED <<mounted, cleanupStream>>
  /\ UNCHANGED <<pageVars, recorderVars, call, uploaderVars, loaderVars>>

\* getUserMedia call r rejects: setHasPermission(false).
DenyCamera(r) ==
  /\ cameraRequests[r] = "pending"
  /\ cameraRequests' = [cameraRequests EXCEPT ![r] = "denied"]
  /\ hasPermission' = IF mounted THEN "false" ELSE hasPermission
  /\ UNCHANGED <<mounted, stream, cleanupStream>>
  /\ UNCHANGED <<pageVars, recorderVars, call, uploaderVars, loaderVars>>

\* ImageCapture is unmounted: the cleanup of its current effect runs.
UnmountImageCapture ==
  /\ mounted
  /\ mounted' = FALSE
  /\ cameraRequests' = stopTracks(cameraRequests, cleanupStream)
  /\ UNCHANGED <<stream, cleanupStream, hasPermission>>
  /\ UNCHANGED <<pageVars, recorderVars, call, uploaderVars, loaderVars>>

CameraNext ==
  \/ captureImageCamera
  \/ handleRetakeCamera
  \/ \E r \in CameraRequests : GrantCamera(r)
  \/ \E r \in CameraRequests : DenyCamera(r)
  \/ UnmountImageCapture

CameraSpec == Init /\ [][CameraNext]_vars

\* ------------------------------------------------------------ ModelUploader
\* "(interval / duration) * 100" for a duration of 2000 ms and one of about
\* 1510 ms, in hundredths of a percent.
Steps == {500, 662}

Min(a, b) == IF a <= b THEN a ELSE b

allModelsLoaded == \A i \in ModelIndexes : modelFiles[i].status = "success"

\* The onModelsLoaded prop, handleModelUpload of Index:
\* "setIsModelLoaded(status)" and a toast.
onModelsLoaded(status) ==
  /\ isModelLoaded' = status
  /\ loadedCalls' = loadedCalls + 1

\* Variant: a new upload puts the files back to 'pending'.
handleFileChangeResetsToPending ==
  /\ ~isLoading
  /\ \E hasFiles \in BOOLEAN :
       IF ~hasFiles
         THEN UNCHANGED uploaderVars
         ELSE /\ isLoading' = TRUE
              /\ completed' = 0
              /\ modelFiles' = [i \in ModelIndexes |-> PendingFile]
              /\ \E steps \in [ModelIndexes -> Steps] :
                   uploadTimers' =
                     [i \in ModelIndexes |->
                        [running |-> TRUE, step |-> steps[i], progress |-> 0]]
              /\ loadedCalls' = 0
              /\ UNCHANGED <<demo, isModelLoaded>>
  /\ UNCHANGED <<pageVars, recorderVars, call, cameraVars, loaderVars>>

\* The file input changes; the Upload Models button that opens it is
\* disabled while isLoading.  Each file gets its own interval with its own
\* random duration.
handleFileChange ==
  /\ ~isLoading
  /\ \E hasFiles \in BOOLEAN :
       IF ~hasFiles
         THEN UNCHANGED uploaderVars
         ELSE /\ isLoading' = TRUE
              /\ completed' = 0
              /\ modelFiles' =
                   [i \in ModelIndexes |->
                      [status |-> "uploading", progress |-> 0]]
              /\ \E steps \in [ModelIndexes -> Steps] :
                   uploadTimers' =
                     [i \in ModelIndexes |->
                        [running |-> TRUE, step |-> steps[i], progress |-> 0]]
              /\ loadedCalls' = 0
              /\ UNCHANGED <<demo, isModelLoaded>>
  /\ UNCHANGED <<pageVars, recorderVars, call, cameraVars, loaderVars>>

\* Variant: the progress shown is not capped.
UploadTimerFiredUncapped(i) ==
  /\ uploadTimers[i].running
  /\ LET progress == uploadTimers[i].progress + uploadTimers[i].step IN
     IF progress >= Pct(100)
       THEN /\ uploadTimers' =
                 [uploadTimers EXCEPT ![i] =
                    [running |-> FALSE, step |-> @.step, progress |-> Pct(100)]]
            /\ completed' = completed + 1
            /\ modelFiles' =
                 [modelFiles EXCEPT ![i] =
                    [status |-> "success", progress |-> Pct(100)]]
            /\ IF completed + 1 = 3
                 THEN isLoading' = FALSE /\ onModelsLoaded(TRUE)
                 ELSE UNCHANGED <<isLoading, isModelLoaded, loadedCalls>>
       ELSE /\ uploadTimers' = [uploadTimers EXCEPT ![i].progress = progress]
            /\ modelFiles' = [modelFiles EXCEPT ![i].progress = progress]
            /\ UNCHANGED <<completed, isLoading, isModelLoaded, loadedCalls>>
  /\ UNCHANGED demo
  /\ UNCHANGED <<pageVars, recorderVars, call, cameraVars, loaderVars>>

\* One firing of the 100 ms interval of file i.
UploadTimerFired(i) ==
  /\ uploadTimers[i].running
  /\ LET progress == uploadTimers[i].progress + uploadTimers[i].step IN
     IF progress >= Pct(100)
       THEN /\ uploadTimers' =
                 [uploadTimers EXCEPT ![i] =
                    [running |-> FALSE, step |-> @.step, progress |-> Pct(100)]]
            /\ completed' = completed + 1
            /\ modelFiles' =
                 [modelFiles EXCEPT ![i] =
                    [status |-> "success", progress |-> Pct(100)]]
            /\ IF completed + 1 = 3
                 THEN isLoading' = FALSE /\ onModelsLoaded(TRUE)
                 ELSE UNCHANGED <<isLoading, isModelLoaded, loadedCalls>>
       ELSE /\ uploadTimers' = [uploadTimers EXCEPT ![i].progress = progress]
            /\ modelFiles' =
                 [modelFiles EXCEPT ![i].progress = Min(Pct(99), progress)]
            /\ UNCHANGED <<completed, isLoading, isModelLoaded, loadedCalls>>
  /\ UNCHANGED demo
  /\ UNCHANGED <<pageVars, recorderVars, call, cameraVars, loaderVars>>

\* The Load Demo Models button, disabled={isLoading || allModelsLoaded}.
handleLoadDemo ==
  /\ ~(isLoading \/ allModelsLoaded)
  /\ isLoading' = TRUE
  /\ modelFiles' =
       [i \in ModelIndexes |-> [status |-> "uploading", progress |-> 0]]
  /\ demo' = [running |-> TRUE, count |-> 0]
  /\ loadedCalls' = 0
  /\ UNCHANGED <<uploadTimers, completed, isModelLoaded>>
  /\ UNCHANGED <<pageVars, recorderVars, call, cameraVars, loaderVars>>

\* Variant: the interval ends on its fourth firing.
DemoTickEndsEarly ==
  /\ demo.running
  /\ LET count == demo.count + 1 IN
     /\ modelFiles' =
          [i \in ModelIndexes |->
             [status |-> IF count * 20 >= 100 THEN "success" ELSE "uploading",
              progress |-> Pct(Min(100, count * 20))]]
     /\ IF count >= 4
          THEN /\ demo' = [running |-> FALSE, count |-> count]
               /\ isLoading' = FALSE
               /\ onModelsLoaded(TRUE)
          ELSE /\ demo' = [demo EXCEPT !.count = count]
               /\ UNCHANGED <<isLoading, isModelLoaded, loadedCalls>>
  /\ UNCHANGED <<uploadTimers, completed>>
  /\ UNCHANGED <<pageVars, recorderVars, call, cameraVars, loaderVars>>

\* One firing of the 500 ms interval of handleLoadDemo.
DemoTick ==
  /\ demo.running
  /\ LET count == demo.count + 1 IN
     /\ modelFiles' =
          [i \in ModelIndexes |->
             [status |-> IF count * 20 >= 100 THEN "success" ELSE "uploading",
              progress |-> Pct(Min(100, count * 20))]]
     /\ IF count >= 5
          THEN /\ demo' = [running |-> FALSE, count |-> count]
               /\ isLoading' = FALSE
               /\ onModelsLoaded(TRUE)
          ELSE /\ demo' = [demo EXCEPT !.count = count]
               /\ UNCHANGED <<isLoading, isModelLoaded, loadedCalls>>
  /\ UNCHANGED <<uploadTimers, completed>>
  /\ UNCHANGED <<pageVars, recorderVars, call, cameraVars, loaderVars>>

UploaderNext ==
  \/ handleFileChange
  \/ \E i \in ModelIndexes : UploadTimerFired(i)
  \/ handleLoadDemo
  \/ DemoTick

UploaderSpec == Init /\ [][UploaderNext]_vars

\* Intervals that are running keep firing.
FairUploaderSpec ==
  /\ UploaderSpec
  /\ \A i \in ModelIndexes : WF_vars(UploadTimerFired(i))
  /\ WF_vars(DemoTick)

\* --------------------------------------------------------------- loadModels
\* The order of the three loads, and the window property of each.
LoadOrder == <<"keyfacial", "facialEmotion", "speechEmotion">>

HandleOf(model) ==
  CASE model = "keyfacial" -> "keyfacialModel"
    [] model = "facialEmotion" -> "facialEmotionModel"
    [] model = "speechEmotion" -> "speechEmotionMlpModel"

\* Variant: a failed load ends the call through the outer catch.
LoadKeyfacialSettledStopsEarly(i) ==
  /\ loads[i].pc = "keyfacial"
  /\ \E ok \in BOOLEAN :
       LET l == loads[i] IN
       /\ loads' = [loads EXCEPT ![i] =
            IF ok
              THEN [pc |-> "facialEmotion",
                    status |-> [l.status EXCEPT !.keyfacial = TRUE],
                    attempts |-> Append(l.attempts,
                                        [model |-> "keyfacial", ok |-> ok])]
              ELSE [pc |-> "returned",
                    status |-> [l.status EXCEPT
                                  !.error = Str("Error loading models"),
                                  !.isLoading = FALSE],
                    attempts |-> Append(l.attempts,
                                        [model |-> "keyfacial", ok |-> ok])]]
       /\ window' = IF ok THEN [window EXCEPT !.keyfacialModel = TRUE]
                    ELSE window
  /\ UNCHANGED <<pageVars, recorderVars, call, cameraVars, uploaderVars,
                 revision, appVars>>

\* Call i resumes from the load of the key facial points model.
LoadKeyfacialSettled(i) ==
  /\ loads[i].pc = "keyfacial"
  /\ \E ok \in BOOLEAN :
       LET l == loads[i] IN
       /\ loads' = [loads EXCEPT ![i] =
            [pc |-> "facialEmotion",
             status |->
               IF ok THEN [l.status EXCEPT !.keyfacial = TRUE]
               ELSE [l.status EXCEPT
                       !.error = Str("Failed to load key facial points model")],
             attempts |-> Append(l.attempts,
                                 [model |-> "keyfacial", ok |-> ok])]]
       /\ window' = IF ok THEN [window EXCEPT !.keyfacialModel = TRUE]
                    ELSE window
  /\ UNCHANGED <<pageVars, recorderVars, call, cameraVars, uploaderVars,
                 revision, appVars>>

\* Variant: a failed load always writes its message.
LoadFacialEmotionSettledOverwrites(i) ==
  /\ loads[i].pc = "facialEmotion"
  /\ \E ok \in BOOLEAN :
       LET l == loads[i] IN
       /\ loads' = [loads EXCEPT ![i] =
            [pc |-> "speechEmotion",
             status |->
               IF ok THEN [l.status EXCEPT !.facialEmotion = TRUE]
               ELSE [l.status EXCEPT
                       !.error = Str("Failed to load facial emotion model")],
             attempts |-> Append(l.attempts,
                                 [model |-> "facialEmotion", ok |-> ok])]]
       /\ window' = IF ok THEN [window EXCEPT !.facialEmotionModel = TRUE]
                    ELSE window
  /\ UNCHANGED <<pageVars, recorderVars, call, cameraVars, uploaderVars,
                 revision, appVars>>

\* Call i resumes from the load of the facial emotion model.
LoadFacialEmotionSettled(i) ==
  /\ loads[i].pc = "facialEmotion"
  /\ \E ok \in BOOLEAN :
       LET l == loads[i] IN
       /\ loads' = [loads EXCEPT ![i] =
            [pc |-> "speechEmotion",
             status |->
               IF ok THEN [l.status EXCEPT !.facialEmotion = TRUE]
               ELSE IF ~Truthy(l.status.error)
                 THEN [l.status EXCEPT
                         !.error = Str("Failed to load facial emotion model")]
                 ELSE l.status,
             attempts |-> Append(l.attempts,
                                 [model |-> "facialEmotion", ok |-> ok])]]
       /\ window' = IF ok THEN [window EXCEPT !.facialEmotionModel = TRUE]
                    ELSE window
  /\ UNCHANGED <<pageVars, recorderVars, call, cameraVars, uploaderVars,
                 revision, appVars>>

\* Variant: the caller gets the status as it was at the return statement.
loadModelsFinallySkipped(status) == status

\* "return status" hands out the object that the finally block then
\* changes, before the promise of loadModels resolves.
loadModelsFinally(status) == [status EXCEPT !.isLoading = FALSE]

\* Call i resumes from the load of the speech emotion model, returns status
\* and runs the finally block.
LoadSpeechEmotionSettled(i) ==
  /\ loads[i].pc = "speechEmotion"
  /\ \E ok \in BOOLEAN :
       LET l == loads[i]
           status ==
             IF ok THEN [l.status EXCEPT !.speechEmotion = TRUE]
             ELSE IF ~Truthy(l.status.error)
               THEN [l.status EXCEPT
                       !.error = Str("Failed to load speech emotion models")]
               ELSE l.status
       IN
       /\ loads' = [loads EXCEPT ![i] =
            [pc |-> "returned",
             status |-> loadModelsFinally(status),
             attempts |-> Append(l.attempts,
                                 [model |-> "speechEmotion", ok |-> ok])]]
       /\ window' = IF ok THEN [window EXCEPT !.speechEmotionMlpModel = TRUE]
                    ELSE window
  /\ UNCHANGED <<pageVars, recorderVars, call, cameraVars, uploaderVars,
                 revision, appVars>>

\* Variant: the error of the status is not looked at.
initModelsToastIgnoresError(status) ==
  IF status.keyfacial /\ status.facialEmotion /\ status.speechEmotion
    THEN "Models Loaded"
  ELSE "Missing Models"

\* The title of the toast initModels shows for a status.
initModelsToast(status) ==
  IF Truthy(status.error) THEN "Model Loading Error"
  ELSE IF status.keyfacial /\ status.facialEmotion /\ status.speechEmotion
    THEN "Models Loaded"
  ELSE "Missing Models"

\* initModels of App resumes from "await loadModels()", call 2:
\* setModelStatus(status) and one toast.
initModelsResumed ==
  /\ initModels = "awaiting"
  /\ loads[2].pc = "returned"
  /\ modelStatus' = loads[2].status
  /\ toasts' = Append(toasts, initModelsToast(loads[2].status))
  /\ initModels' = "done"
  /\ UNCHANGED <<pageVars, recorderVars, call, cameraVars, uploaderVars,
                 loads, window, revision>>

LoadNext ==
  \/ \E i \in Invocations : LoadKeyfacialSettled(i)
  \/ \E i \in Invocations : LoadFacialEmotionSettled(i)
  \/ \E i \in Invocations : LoadSpeechEmotionSettled(i)
  \/ initModelsResumed

LoadSpec == Init /\ [][LoadNext]_vars

\* ------------------------------------------------------------ properties
\* C1: recordingTime is in 0..10 in every reachable state,
\* handleStartRecording resets it to 0, and every tick while isRecording is
\* true raises it by exactly 1.
C1_RecordingTimeAsClaimed ==
  /\ [](recordingTime \in 0..10)
  /\ [][handleStartRecording => recordingTime' = 0]_vars
  /\ [][(Tick /\ isRecording) => recordingTime' = recordingTime + 1]_vars

\* C2: the countdown ends the recording on exactly the tick on which
\* recordingTime becomes 10, the tenth tick of the session.
C2_EndsOnTenthTickAsClaimed ==
  [][Tick => ((recordingTime = 9 /\ recordingTime' = 10)
                <=> (isRecording /\ ~isRecording'))]_vars

\* C3: once isRecording is true it eventually becomes false, whatever
\* happens to the microphone permission request.
C3_RecordingTerminates == isRecording ~> ~isRecording

\* A session at the end of its countdown whose permission request was
\* never answered.
C3_Witness ==
  /\ isRecording
  /\ recordingTime = 10
  /\ sessions > 0
  /\ recorders[sessions] = "pending"

\* The failure cases of predictFacialEmotion, stated on its inputs: model
\* missing, preprocessing failed, prediction thrown, empty or not a list of
\* rows of numbers, or the first largest value outside the six labels.
IsProbabilityRow(x) ==
  /\ x.t = "array"
  /\ Len(x.items) > 0
  /\ \A i \in 1..Len(x.items) : x.items[i].t = "number"

HasRow(output) ==
  /\ output.t = "array"
  /\ Len(output.items) > 0
  /\ IsProbabilityRow(output.items[1])

LargestWithinLabels(row) ==
  \E k \in 1..Len(row.items) :
    /\ k <= 6
    /\ \A j \in 1..Len(row.items) : row.items[j].v <= row.items[k].v
    /\ \A j \in 1..(k - 1) : row.items[j].v < row.items[k].v

EmotionFailureCase(env) ==
  \/ ~env.model
  \/ env.preprocess = "reject"
  \/ ~HasRow(env.output)
  \/ ~LargestWithinLabels(env.output.items[1])

\* C4: predictFacialEmotion always resolves, and in every failure case it
\* resolves to exactly {emotion: "neutral", confidence: 0.8}.
C4_FacialEmotionNeverRejects ==
  call.fn = "predictFacialEmotion" =>
    /\ call.result.t = "resolved"
    /\ EmotionFailureCase(call.env) =>
         call.result.value = [emotion |-> Str("neutral"), confidence |-> Num(80)]

\* A loaded model whose largest output is a seventh value.
C4_Witness ==
  /\ call.fn = "predictFacialEmotion"
  /\ call.env.model
  /\ call.env.preprocess = "ok"
  /\ call.env.output = Arr(<<PeakRow(7, 7)>>)
  /\ call.result.t = "resolved"

SpeechFailureCase(env) ==
  \/ ~env.model
  \/ env.tensor = "throw"
  \/ env.dispose = "throw"
  \/ ~HasRow(env.output)
  \/ ~LargestWithinLabels(env.output.items[1])

\* C5: predictSpeechEmotion always resolves, and in every failure case the
\* result carries one of the six labels and a confidence between 0.5 and 1.
C5_SpeechEmotionNeverRejects ==
  call.fn = "predictSpeechEmotion" =>
    /\ call.result.t = "resolved"
    /\ SpeechFailureCase(call.env) =>
         /\ call.result.value.emotion.t = "string"
         /\ call.result.value.emotion.s \in
              {"happy", "sad", "angry", "surprised", "neutral", "fearful"}
         /\ call.result.value.confidence.t = "number"
         /\ call.result.value.confidence.v >= 50
         /\ call.result.value.confidence.v <= 100

\* A loaded model whose tensor clean-up throws after a good prediction.
C5_Witness ==
  /\ call.fn = "predictSpeechEmotion"
  /\ call.env.model
  /\ call.env.tensor = "ok"
  /\ call.env.dispose = "throw"
  /\ HasRow(call.env.output)
  /\ call.result.t = "resolved"

\* The sample face, in pixels of the 96x96 image.
SampleCoordinates ==
  << <<33, 33>>, <<63, 33>>, <<48, 48>>, <<38, 63>>, <<58, 63>>,
     <<28, 43>>, <<68, 43>>, <<48, 58>>, <<48, 68>>, <<23, 48>>,
     <<73, 48>>, <<33, 23>>, <<63, 23>>, <<33, 73>>, <<63, 73>> >>

IsFifteenPairs(x) ==
  /\ x.t = "array"
  /\ Len(x.items) = 15
  /\ \A k \in 1..15 : x.items[k].t = "array" /\ Len(x.items[k].items) = 2

HasKeypointRow(output) ==
  /\ output.t = "array"
  /\ Len(output.items) > 0
  /\ output.items[1].t = "array"
  /\ \A i \in 1..Len(output.items[1].items) : output.items[1].items[i].t = "number"

KeypointSuccessCase(env) ==
  /\ env.model
  /\ env.preprocess = "ok"
  /\ HasKeypointRow(env.output)
  /\ Len(env.output.items[1].items) >= 30

KeypointFailureCase(env) ==
  \/ ~env.model
  \/ env.preprocess = "reject"
  \/ env.output.t \in {"throw", "null"}
  \/ env.output.t = "array" /\ Len(env.output.items) = 0
  \/ HasKeypointRow(env.output) /\ Len(env.output.items[1].items) < 30

IsLabelOrNull(x) ==
  \/ x.t = "null"
  \/ /\ x.t = "string"
     /\ x.s \in {"happy", "sad", "angry", "surprised", "neutral", "fearful"}

\* C7: each label of emotionData is null or one of the six labels, the two
\* labels are null together, and a confidence is null exactly when its
\* label is.
C7_EmotionDataWellFormed ==
  /\ IsLabelOrNull(emotionData.facial)
  /\ IsLabelOrNull(emotionData.speech)
  /\ (emotionData.facial.t = "null") <=> (emotionData.speech.t = "null")
  /\ (emotionData.confidence.facial.t = "null") <=> (emotionData.facial.t = "null")
  /\ (emotionData.confidence.speech.t = "null") <=> (emotionData.speech.t = "null")

\* An analysis has written its result.
C7_Witness ==
  /\ emotionData.facial.t = "string"
  /\ emotionData.speech.t = "string"
  /\ analysis.pc = "idle"

\* C8: while a recording session runs, audioBlob holds no clip (any clip it
\* held would be one of an earlier session).
C8_NoStaleClipAsClaimed == isRecording => audioBlob.t = "null"

\* C9: the Retake action leaves emotionData.facial and its confidence null.
C9_RetakeClearsFacialResultAsClaimed ==
  [][handleRetake => /\ emotionData'.facial.t = "null"
                     /\ emotionData'.confidence.facial.t = "null"]_vars

\* C10: the Retake action leaves capturedImage an empty, falsy string and
\* facialKeypoints null, and every capture leaves facialKeypoints null.
C10_RetakeClearsImageAndKeypoints ==
  [][/\ handleRetake => /\ capturedImage' = Str("")
                        /\ ~Truthy(capturedImage')
                        /\ facialKeypoints'.t = "null"
     /\ captureImage => facialKeypoints'.t = "null"]_vars

\* Retake after an analysis: the analysis result is still there, so the
\* keypoints it had set were cleared by the Retake.
C10_Witness ==
  /\ capturedImage = Str("")
  /\ facialKeypoints.t = "null"
  /\ emotionData.facial.t = "string"

\* C11: immediately after handleStartRecording both labels and both
\* confidences of emotionData are null and facialKeypoints is null, while
\* capturedImage is unchanged.
C11_StartRecordingClearsAnalysis ==
  [][handleStartRecording =>
       /\ emotionData'.facial.t = "null"
       /\ emotionData'.speech.t = "null"
       /\ emotionData'.confidence.facial.t = "null"
       /\ emotionData'.confidence.speech.t = "null"
       /\ facialKeypoints'.t = "null"
       /\ capturedImage' = capturedImage]_vars

\* A second session was started while an analysis that had already set the
\* keypoints was still waiting for the speech predictor.
C11_Witness ==
  /\ isRecording
  /\ recordingTime = 0
  /\ sessions = 2
  /\ analysis.pc = "speech"
  /\ Truthy(capturedImage)
  /\ facialKeypoints.t = "null"
  /\ emotionData = NoEmotionData

\* C12: while a captured image is displayed by the mounted ImageCapture, no
\* camera stream has live tracks, whatever the order of the permission
\* grant and the Capture and Retake clicks.
C12_NoLiveStreamWithImageAsClaimed ==
  (mounted /\ Truthy(capturedImage)) =>
    \A r \in CameraRequests : cameraRequests[r] # "live"

\* C13: when ImageCapture is unmounted, the effect cleanup leaves no camera
\* stream with live tracks, a stream obtained after a Retake included.
C13_UnmountStopsStreamsAsClaimed ==
  [][UnmountImageCapture =>
       \A r \in CameraRequests : cameraRequests'[r] # "live"]_vars

\* C14: after a recording session has ended, eventually no MediaRecorder is
\* recording and no microphone track is live, also when the permission is
\* granted only after the countdown has ended.
C14_RecorderEventuallyStoppedAsClaimed ==
  (sessions > 0 /\ ~isRecording) ~>
    (\A s \in Sessions : recorders[s] \notin {"recording", "stopping"})

\* C15: a step that starts an analysis is taken with image and clip
\* present; handleAnalyzeData called with either missing changes no state;
\* and emotionData is written a result only by an analysis that was started
\* with both inputs.
C15_AnalysisNeedsBothInputs ==
  [][/\ (/\ analysis.pc = "idle"
         /\ \/ analysis'.pc # "idle"
            \/ isAnalyzing' # isAnalyzing
            \/ facialKeypoints' # facialKeypoints /\ facialKeypoints'.t # "null"
            \/ emotionData' # emotionData /\ emotionData'.facial.t # "null")
          => (Truthy(capturedImage) /\ Truthy(audioBlob))
     /\ handleAnalyzeDataInputMissing => UNCHANGED vars
     /\ (emotionData' # emotionData /\ emotionData'.facial.t # "null")
          => \/ analysis.pc = "idle" /\ Truthy(capturedImage) /\ Truthy(audioBlob)
             \/ analysis.pc # "idle" /\ Truthy(analysis.image) /\ Truthy(analysis.blob)
    ]_vars

\* The image was retaken after an analysis had written its result: the
\* handler called now finds the image missing.
C15_Witness ==
  /\ capturedImage = Str("")
  /\ Truthy(audioBlob)
  /\ emotionData.facial.t = "string"
  /\ analysis.pc = "idle"
  /\ ~isRecording

\* C16: the Start Recording action is not taken in any state in which no
\* captured image exists.
C16_StartNeedsImageAsClaimed ==
  [][handleStartRecording => Truthy(capturedImage)]_vars

\* C16, amended: the Start Recording action is not taken in any state in
\* which a recording is in progress; a captured image is not needed.
C16_StartNeedsNoRecording ==
  [][handleStartRecording => ~isRecording]_vars

\* A session started on a page that never had a captured image.
C16_Witness ==
  /\ isRecording
  /\ sessions = 1
  /\ capturedImage.t = "null"

\* C17: the status of a model file only moves pending -> uploading,
\* uploading -> success and success -> uploading; it is never 'error' and
\* never goes back to 'pending'.
C17_FileStatusTransitions ==
  /\ [](\A i \in ModelIndexes :
          modelFiles[i].status \in {"pending", "uploading", "success"})
  /\ [][\A i \in ModelIndexes :
          \/ modelFiles'[i].status = modelFiles[i].status
          \/ <<modelFiles[i].status, modelFiles'[i].status>> \in
               {<<"pending", "uploading">>, <<"uploading", "success">>,
                <<"success", "uploading">>}]_vars

\* A second upload was started after a first run had completed.
C17_Witness ==
  /\ isModelLoaded
  /\ isLoading
  /\ modelFiles[1].status = "uploading"
  /\ modelFiles[2].status = "success"

\* C18: the progress of a model file is within 0..100, it is 100 exactly
\* when the status is 'success', it is at most 99 while 'uploading', and
\* within one run it never decreases.
C18_ProgressBounds ==
  /\ [](\A i \in ModelIndexes :
          /\ modelFiles[i].progress >= 0
          /\ modelFiles[i].progress <= Pct(100)
          /\ (modelFiles[i].progress = Pct(100)) <=> (modelFiles[i].status = "success")
          /\ modelFiles[i].status = "uploading" => modelFiles[i].progress <= Pct(99))
  /\ [][isLoading =>
          \A i \in ModelIndexes : modelFiles'[i].progress >= modelFiles[i].progress]_vars

\* The interval's own progress has passed 99 and the shown one is held at 99.
C18_Witness ==
  \E i \in ModelIndexes :
    /\ modelFiles[i].status = "uploading"
    /\ modelFiles[i].progress = Pct(99)
    /\ uploadTimers[i].progress > Pct(99)

\* C19: a call of loadModels never rejects and never ends early: the three
\* loads are tried in order whatever failed before, each status flag is
\* true exactly when its load succeeded, and the call stores the window
\* handle of a model exactly when it sets the flag of that model.
C19_LoadModelsTriesAllThree ==
  /\ [](\A i \in Invocations :
          LET l == loads[i] IN
          /\ l.pc \in {"keyfacial", "facialEmotion", "speechEmotion", "returned"}
          /\ Len(l.attempts) <= 3
          /\ \A n \in 1..Len(l.attempts) : l.attempts[n].model = LoadOrder[n]
          /\ (l.pc = "returned") <=> (Len(l.attempts) = 3)
          /\ \A n \in 1..3 :
               l.status[LoadOrder[n]] <=>
                 (n <= Len(l.attempts) /\ l.attempts[n].ok)
          /\ \A n \in 1..3 :
               l.status[LoadOrder[n]] => window[HandleOf(LoadOrder[n])])
  /\ [](\A n \in 1..3 :
          window[HandleOf(LoadOrder[n])] =>
            \E i \in Invocations : loads[i].status[LoadOrder[n]])
  /\ [][\A i \in Invocations :
          loads'[i] # loads[i] =>
            LET a == loads'[i].attempts[Len(loads'[i].attempts)] IN
            /\ Len(loads'[i].attempts) = Len(loads[i].attempts) + 1
            /\ IF a.ok
                 THEN window' = [window EXCEPT ![HandleOf(a.model)] = TRUE]
                 ELSE window' = window]_vars

\* A call that returned after its first and third loads had failed.
C19_Witness ==
  /\ loads[2].pc = "returned"
  /\ ~loads[2].status.keyfacial
  /\ loads[2].status.facialEmotion
  /\ ~loads[2].status.speechEmotion
  /\ window.facialEmotionModel

\* C20: while the latest session is one whose microphone request was
\* denied, the session is ended by the countdown only and audioBlob keeps
\* its value (onRecordingComplete is not called).
C20_DeniedSessionKeepsClipAsClaimed ==
  [][(sessions > 0 /\ recorders[sessions] = "denied") =>
       /\ audioBlob' = audioBlob
       /\ (isRecording /\ ~isRecording') => Tick]_vars

\* C21: facialKeypoints is non-null only while a captured image exists,
\* also when Retake is clicked while an analysis is in flight.
C21_KeypointsOnlyWithImageAsClaimed ==
  facialKeypoints.t # "null" => Truthy(capturedImage)

\* C22: while isRecording is true, emotionData is entirely null and
\* facialKeypoints is null, also when the recording was started while an
\* analysis was in flight.
C22_NoResultWhileRecordingAsClaimed ==
  isRecording => (emotionData = NoEmotionData /\ facialKeypoints.t = "null")


\* C23: at most one analysis is in flight, and isAnalyzing is true exactly
\* while one is: it is true from the start of an analysis, no analysis
\* starts while it is true, and it is false again once the analysis has
\* finished, by its last statement or by a throw.
C23_OneAnalysisInFlight ==
  /\ [](isAnalyzing <=> analysis.pc # "idle")
  /\ [][handleAnalyzeData => (~isAnalyzing /\ analysis.pc = "idle")]_vars

\* An analysis that wrote its keypoints and then threw has finished.
C23_Witness ==
  /\ revision = "throwing"
  /\ facialKeypoints.t # "null"
  /\ emotionData = NoEmotionData
  /\ analysis.pc = "idle"
  /\ ~isAnalyzing
  /\ Truthy(capturedImage)
  /\ Truthy(audioBlob)

\* C24: a session whose microphone permission is granted while isRecording
\* is still true delivers exactly one clip: its recorder is stopped only
\* once isRecording is false, and the stop event of its recorder sets
\* audioBlob to a clip made of the chunks recorded in that session.  The
\* recorder of the latest session is stopped only if its permission was
\* granted while that session was recording.
C24_SessionDeliversItsClipAsClaimed ==
  [][\A s \in Sessions :
       /\ (recorders[s] = "recording" /\ recorders'[s] = "stopping")
            => ~isRecording'
       /\ (s = sessions /\ recorders[s] = "stopping"
              /\ recorders'[s] = "inactive")
            => /\ audioBlob'.t = "blob"
               /\ \A i \in 1..Len(audioBlob'.chunks) :
                    audioBlob'.chunks[i] = s]_vars

\* C25: with the predictors that throw, a failed analysis leaves the
\* results unchanged.  An analysis that ends in the step in which its
\* awaited predictFacialKeypoints settles has failed, in that predictor or
\* in predictFacialEmotion: that step changes neither facialKeypoints nor
\* emotionData.
C25_FailedAnalysisKeepsResultsAsClaimed ==
  [][(revision = "throwing" /\ analysis.pc = "keypoints"
        /\ analysis'.pc = "idle")
       => (facialKeypoints' = facialKeypoints
             /\ emotionData' = emotionData)]_vars

\* The message loadModels records when the load of a model fails.
C26_MessageOf(model) ==
  CASE model = "keyfacial" -> Str("Failed to load key facial points model")
    [] model = "facialEmotion" -> Str("Failed to load facial emotion model")
    [] model = "speechEmotion" -> Str("Failed to load speech emotion models")

\* The first failed load of a returned call, 0 if none failed.
C26_FirstFailed(attempts) ==
  IF \A k \in 1..Len(attempts) : attempts[k].ok THEN 0
  ELSE CHOOSE k \in 1..Len(attempts) :
         /\ ~attempts[k].ok
         /\ \A j \in 1..(k - 1) : attempts[j].ok

\* C26: the status loadModels returns has error null exactly when all three
\* flags are true; otherwise error is the message of the first load that
\* failed, which later failures do not overwrite.
C26_ErrorIsFirstFailure ==
  \A i \in Invocations :
    loads[i].pc = "returned" =>
      LET st == loads[i].status
          k == C26_FirstFailed(loads[i].attempts) IN
      /\ st.error = Null
           <=> (st.keyfacial /\ st.facialEmotion /\ st.speechEmotion)
      /\ k = 0 => st.error = Null
      /\ k # 0 => st.error = C26_MessageOf(loads[i].attempts[k].model)

\* A returned call whose first two loads failed.
C26_Witness ==
  \E i \in Invocations :
    /\ loads[i].pc = "returned"
    /\ ~loads[i].attempts[1].ok
    /\ ~loads[i].attempts[2].ok
    /\ loads[i].status.error = Str("Failed to load key facial points model")

\* C27: the status a caller receives from loadModels has isLoading false:
\* the finally block has run when the promise resolves, so the status of a
\* returned call and the status App stores have isLoading false.
C27_ReceivedStatusNotLoading ==
  /\ \A i \in Invocations :
       loads[i].pc = "returned" => ~loads[i].status.isLoading
  /\ initModels = "done" => ~modelStatus.isLoading

\* App has stored the status of its call.
C27_Witness ==
  /\ initModels = "done"
  /\ modelStatus = loads[2].status
  /\ modelStatus # InitialModelStatus
  /\ ~modelStatus.isLoading

\* C28: App shows exactly one toast per model initialisation: "Model
\* Loading Error" exactly when the status has an error, "Models Loaded"
\* exactly when all three models are loaded, and "Missing Models" for no
\* outcome of loadModels.
C28_OneToastPerInitialisation ==
  /\ initModels = "awaiting" => toasts = <<>>
  /\ initModels = "done" =>
       /\ Len(toasts) = 1
       /\ toasts[1] = "Model Loading Error" <=> modelStatus.error # Null
       /\ toasts[1] = "Models Loaded"
            <=> (modelStatus.keyfacial /\ modelStatus.facialEmotion
                   /\ modelStatus.speechEmotion)
       /\ toasts[1] # "Missing Models"

\* App has shown the toast of an initialisation in which a model failed.
C28_Witness ==
  /\ initModels = "done"
  /\ toasts = <<"Model Loading Error">>
  /\ modelStatus.keyfacial
  /\ ~modelStatus.speechEmotion

\* A step in which onModelsLoaded(true) is called.
C29_CallStep == loadedCalls' = loadedCalls + 1

\* C29: each run of handleFileChange with a file and each run of
\* handleLoadDemo calls onModelsLoaded(true) exactly once, in the step that
\* leaves all three files at status success and progress 100; isLoading is
\* true from the start of the run until that call and false after it, and
\* handleLoadDemo makes the call on the fifth firing of its interval.
C29_OneCallPerRun ==
  /\ [](isLoading => loadedCalls = 0)
  /\ [](~isLoading => (loadedCalls \in {0, 1}
                         /\ (loadedCalls = 1 <=> allModelsLoaded)))
  /\ [][(~isLoading /\ isLoading') => loadedCalls' = 0]_vars
  /\ [][C29_CallStep
         => /\ isLoading /\ ~isLoading'
            /\ isModelLoaded'
            /\ \A i \in ModelIndexes :
                 modelFiles'[i] = [status |-> "success",
                                    progress |-> Pct(100)]]_vars
  /\ [][(isLoading /\ ~isLoading') => C29_CallStep]_vars
  /\ [][demo.running => (C29_CallStep <=> demo'.count = 5)]_vars
  /\ isLoading ~> (~isLoading /\ loadedCalls = 1)

\* A run of handleLoadDemo has made its call, on its fifth firing.
C29_Witness ==
  /\ ~isLoading
  /\ loadedCalls = 1
  /\ demo.count = 5
  /\ isModelLoaded
  /\ allModelsLoaded
====
